---- MODULE Spec2Model ----
(***************************************************************************)
(* Verification model of the TruthSeeker front end (solo speech view,      *)
(* YouTube live viewer), the REST back end it talks to and the deployment  *)
(* script.  Each subsystem has its own specification over its own group    *)
(* of variables; the variables of the other groups stay at their initial   *)
(* values.                                                                 *)
(***************************************************************************)
EXTENDS Integers, Sequences, FiniteSets, TLC

VARIABLES
    \* --- WebSocket life cycle of one mounted component (App.js / YouTubeLive)
    view,                 \* "solo" (TruthSeeker) or "yt" (YouTubeLive)
    mounted,              \* FALSE once the effect cleanup has run
    sessionId,            \* TruthSeeker only: useState(() => generateSessionId())
    socks,                \* socks[i]: url and readyState of the i-th WebSocket created
    wsRef,                \* wsRef.current: index into socks, 0 = null
    timers,               \* pending setTimeout(connectWebSocket, 3000) calls
    reconnectTimeoutRef,  \* YouTubeLive only: socket id of the last timer, 0 = null
    isConnected,          \* YouTubeLive only
    now,                  \* clock, in seconds
    \* --- speech recognition and sentence submission of TruthSeeker (App.js)
    speechSupported,      \* window.SpeechRecognition || window.webkitSpeechRecognition
    isListening,          \* useState(false)
    recs,                 \* recs[r]: the r-th SpeechRecognition object created
    recognitionRef,       \* recognitionRef.current: index into recs, 0 = null
    speechError,          \* the error state, by kind ("" = none)
    spTimers,             \* pending setTimeout calls: restart (100 ms), debounce (1 s)
    timerSeq,             \* number of timers created so far (timer ids)
    processTimeoutRef,    \* processTimeoutRef.current: a timer id, 0 = null
    isProcessing,         \* useState(false)
    outbox,               \* submissions made, in order: channel, sentence, session
    httpPending,          \* POST /api/fact-check requests awaiting their response
    factChecks,           \* TruthSeeker's factChecks list
    received,             \* the WebSocket message or HTTP response handled last
    wsReceived,           \* messages ws.onmessage has handled so far
    clock,                \* clock of the speech model, in units of 100 ms
    \* --- YouTubeLive's session state, its server and the network between them
    videoSession,         \* useState(null): the video id shown, "none" = null
    ytFactChecks,         \* YouTubeLive's factChecks list
    transcriptSegments,   \* YouTubeLive's transcriptSegments list
    loading,              \* useState(true)
    ytError,              \* the error state, by kind ("" = none)
    conn,                 \* the viewer's WebSocket: "connecting", "open", "closed"
    connects,             \* connections the viewer has made so far
    wsChan,               \* server -> viewer messages in flight on the open socket
    wsReqs,               \* get_current_session requests in flight to the server
    httpState,            \* GET /youtube/current-session: requested, responded, done
    httpResp,             \* the response in flight
    srvVideo,             \* server: the current video session, "none" = not set
    srvFacts,             \* server: stored fact-checks of each video
    srvSegs,              \* server: stored transcript segments of each video
    srvSeq,               \* server: records and video changes produced so far
    srvGen,               \* server: video sessions set so far (0 = none yet)
    shownGen,             \* which of them the viewer's videoSession was taken from
    wsGen,                \* the latest of them a handled WebSocket message announced
    \* --- the REST back end and TruthSeeker's health check
    perplexityKey,        \* whether PERPLEXITY_API_KEY is configured
    dbFacts,              \* stored fact-check results, by session id or video id
    reqSeq,               \* requests handled so far
    lastReq,              \* the request handled last
    lastResp,             \* its response
    fcRuns,               \* fact-checks run while handling it
    apiConfigured,        \* TruthSeeker: useState(false)
    healthOutcome,        \* how TruthSeeker's fetch of /api/health ended ("none" = pending)
    \* --- deploy.sh
    dPos,                 \* the command to run next: function of main and command in it
    dStatus,              \* "running", "done" or "exited"
    dExit,                \* the script's exit status
    dBranch,              \* outcome of the last condition: "yes", "no" or ""
    dStarted,             \* the functions of main started so far, in order
    dReturned,            \* the functions that have returned
    dFailed,              \* commands that failed and were not part of a condition
    keyP,                 \* PERPLEXITY_API_KEY is non-empty
    keyO,                 \* OPENAI_API_KEY is non-empty
    dLog,                 \* messages of interest printed so far
    \* --- AdminPanel (AdminPanel.js)
    videoUrl,             \* useState(''): the URL field
    currentSession,       \* useState(null): the video id of the session, "none" = null
    isLoading,            \* useState(false)
    message,              \* useState(''): the message shown, by kind ("" = none)
    adminIsProcessing,    \* AdminPanel's isProcessing, useState(false)
    isAuthenticated,      \* useState(false)
    adminReqs,            \* fetches of the panel awaiting their response
    adminSeq,             \* requests the admin's clicks have made so far
    adminLast,            \* the request that settled last, with its response
    workflow              \* the admin's place in the documented workflow

wsVars == <<view, sessionId, mounted, socks, wsRef, timers, reconnectTimeoutRef, isConnected, now>>

speechVars == <<speechSupported, isListening, recs, recognitionRef, speechError, spTimers,
                timerSeq, processTimeoutRef, isProcessing, outbox, httpPending, factChecks,
                received, wsReceived, clock>>

viewerVars == <<videoSession, ytFactChecks, transcriptSegments, loading, ytError, conn, connects,
                wsChan, wsReqs, httpState, httpResp, srvVideo, srvFacts, srvSegs, srvSeq,
                srvGen, shownGen, wsGen>>

apiVars == <<perplexityKey, dbFacts, reqSeq, lastReq, lastResp, fcRuns, apiConfigured, healthOutcome>>

deployVars == <<dPos, dStatus, dExit, dBranch, dStarted, dReturned, dFailed, keyP, keyO, dLog>>

adminVars == <<videoUrl, currentSession, isLoading, message, adminIsProcessing, isAuthenticated,
               adminReqs, adminSeq, adminLast, workflow>>

vars == <<wsVars, speechVars, viewerVars, apiVars, deployVars, adminVars>>

\* What an action of one group leaves alone
notWs == <<speechVars, viewerVars, apiVars, deployVars, adminVars>>
notSpeech == <<wsVars, viewerVars, apiVars, deployVars, adminVars>>
notViewer == <<wsVars, speechVars, apiVars, deployVars, adminVars>>
notApi == <<wsVars, speechVars, viewerVars, deployVars, adminVars>>
notDeploy == <<wsVars, speechVars, viewerVars, apiVars, adminVars>>
notAdmin == <<wsVars, speechVars, viewerVars, apiVars, deployVars>>

\* ------------------------------------------------------------------------
\* Bounds of the model
MaxSockets == 3      \* WebSocket objects one component instance creates
MaxTime == 8         \* seconds of clock the model follows
MaxRecs == 3         \* SpeechRecognition objects one TruthSeeker instance creates
MaxResults == 2      \* final speech results long enough to be submitted
MaxClock == 21       \* tenths of a second the speech model follows
MaxRecords == 2      \* fact-checks, transcript segments and video changes the server produces
MaxConnects == 2     \* WebSocket connections the YouTube viewer makes
MaxRequests == 2     \* requests the back end handles
MaxAdminRequests == 4 \* requests the admin's clicks make
MaxMessages == 2     \* messages the server sends to one TruthSeeker instance

\* ------------------------------------------------------------------------
\* WebSocket reconnect loop

\* setTimeout(connectWebSocket, 3000): the delay, in seconds
ReconnectDelay == 3

Views == {"solo", "yt"}

ReadyStates == {"CONNECTING", "OPEN", "CLOSING", "CLOSED"}

\* The ids generateSessionId can return ('session_' + random + '_' + Date.now()).
SessionIds == {"session_a", "session_b"}

\* `${WS_URL}/ws/${sessionId}` in TruthSeeker, `${WS_URL}/ws/youtube-live` in YouTubeLive
WsUrl == IF view = "solo" THEN <<"ws", sessionId>> ELSE <<"ws", "youtube-live">>

\* A connectWebSocket that generates a new session id for each connection.
connectWebSocketNewId ==
    /\ socks' = Append(socks, [url |-> <<"ws", CHOOSE id \in SessionIds : id # sessionId>>,
                               state |-> "CONNECTING"])
    /\ wsRef' = Len(socks) + 1

\* const ws = new WebSocket(url); ...; wsRef.current = ws
connectWebSocket ==
    /\ socks' = Append(socks, [url |-> WsUrl, state |-> "CONNECTING"])
    /\ wsRef' = Len(socks) + 1

\* A close handler with a retry budget of one reconnect.
OnCloseBudget(i) ==
    /\ timers' = IF i = 1 THEN timers \cup {[sock |-> i, due |-> now + ReconnectDelay]}
                          ELSE timers
    /\ IF view = "yt"
         THEN /\ isConnected' = FALSE
              /\ reconnectTimeoutRef' = IF i = 1 THEN i ELSE reconnectTimeoutRef
         ELSE UNCHANGED <<isConnected, reconnectTimeoutRef>>

\* Handlers in which onerror schedules a reconnect as well, a second after
\* the one onclose schedules.
OnCloseAndError(i) ==
    /\ timers' = timers \cup {[sock |-> i, due |-> now + ReconnectDelay],
                               [sock |-> i, due |-> now + ReconnectDelay + 1]}
    /\ IF view = "yt"
         THEN /\ isConnected' = FALSE
              /\ reconnectTimeoutRef' = i
         ELSE UNCHANGED <<isConnected, reconnectTimeoutRef>>

\* ws.onclose of socket i: schedule connectWebSocket after the fixed delay.
\* The handler never looks at the mounted flag or at a retry count.
OnClose(i) ==
    /\ timers' = timers \cup {[sock |-> i, due |-> now + ReconnectDelay]}
    /\ IF view = "yt"
         THEN /\ isConnected' = FALSE
              /\ reconnectTimeoutRef' = i
         ELSE UNCHANGED <<isConnected, reconnectTimeoutRef>>

WSInit ==
    /\ view \in Views
    /\ mounted = TRUE
    /\ sessionId \in (IF view = "solo" THEN SessionIds ELSE {"none"})
    /\ socks = <<[url |-> WsUrl, state |-> "CONNECTING"]>>
    /\ wsRef = 1
    /\ timers = {}
    /\ reconnectTimeoutRef = 0
    /\ isConnected = FALSE
    /\ now = 0

\* The connection is established: ws.onopen.
SockOpen(i) ==
    /\ socks[i].state = "CONNECTING"
    /\ socks' = [socks EXCEPT ![i].state = "OPEN"]
    /\ isConnected' = IF view = "yt" THEN TRUE ELSE isConnected
    /\ UNCHANGED <<view, sessionId, mounted, wsRef, timers, reconnectTimeoutRef, now>>
    /\ UNCHANGED notWs

\* The connection failed, was dropped, or finished closing: the close event
\* of socket i is dispatched and ws.onclose runs.  The environment drops a
\* connection only while the model can still follow the reconnect.
SockClose(i) ==
    /\ socks[i].state # "CLOSED"
    /\ Len(socks) + Cardinality(timers) < MaxSockets
    /\ now + ReconnectDelay <= MaxTime
    /\ socks' = [socks EXCEPT ![i].state = "CLOSED"]
    /\ OnClose(i)
    /\ UNCHANGED <<view, sessionId, mounted, wsRef, now>>
    /\ UNCHANGED notWs

\* A reconnect timer comes due: connectWebSocket runs.
TimerFire(t) ==
    /\ t \in timers
    /\ t.due = now
    /\ timers' = timers \ {t}
    /\ connectWebSocket
    /\ UNCHANGED <<view, sessionId, mounted, reconnectTimeoutRef, isConnected, now>>
    /\ UNCHANGED notWs

\* One second passes; a timer that is due fires before the clock moves on.
Tick ==
    /\ now < MaxTime
    /\ \A t \in timers : t.due > now
    /\ now' = now + 1
    /\ UNCHANGED <<view, sessionId, mounted, socks, wsRef, timers, reconnectTimeoutRef, isConnected>>
    /\ UNCHANGED notWs

\* The effect cleanup at unmount: close the current socket; YouTubeLive also
\* clears the timer held in reconnectTimeoutRef.
Unmount ==
    /\ mounted
    /\ mounted' = FALSE
    /\ socks' = IF wsRef # 0 /\ socks[wsRef].state \in {"CONNECTING", "OPEN"}
                  THEN [socks EXCEPT ![wsRef].state = "CLOSING"]
                  ELSE socks
    /\ timers' = IF view = "yt" /\ reconnectTimeoutRef # 0
                   THEN {t \in timers : t.sock # reconnectTimeoutRef}
                   ELSE timers
    /\ UNCHANGED <<view, sessionId, wsRef, reconnectTimeoutRef, isConnected, now>>
    /\ UNCHANGED notWs

WSNext ==
    \/ \E i \in 1..Len(socks) : SockOpen(i)
    \/ \E i \in 1..Len(socks) : SockClose(i)
    \/ \E t \in timers : TimerFire(t)
    \/ Tick
    \/ Unmount

\* ------------------------------------------------------------------------
\* Speech recognition of TruthSeeker: the effect on [isListening], the
\* recognizer's events, toggleListening, and the debounced submission.

\* setTimeout(() => recognition.start(), 100), in tenths of a second
RestartDelay == 1

\* setTimeout(async () => {...}, 1000), in tenths of a second
DebounceDelay == 10

\* finalTranscript.trim().length > 10
MinLength == 10

\* Final transcripts a result event can carry: raw length and the number of
\* leading and trailing blanks that trim() removes.
Texts == {[id |-> "empty", len |-> 0, pad |-> 0],
          [id |-> "ten", len |-> 12, pad |-> 2],
          [id |-> "eleven", len |-> 11, pad |-> 0],
          [id |-> "long", len |-> 25, pad |-> 1]}

\* A trim() that leaves the text as it is.
TrimNothing(text) == text

\* finalTranscript.trim()
Trim(text) == [id |-> text.id, len |-> text.len - text.pad, pad |-> 0]

Started(r) == recs[r].state \in {"active", "stopping"}

\* recognition.stop(): a started recognizer winds down, otherwise nothing happens
StopRec(rs, r) ==
    IF r # 0 /\ rs[r].state = "active" THEN [rs EXCEPT ![r].state = "stopping"] ELSE rs

\* The effect on [isListening] runs again after isListening changed to
\* `listening`: the cleanup stops the recognizer the previous run created (the
\* one in recognitionRef), then a new recognizer is created whose onend closes
\* over the new value, and it becomes recognitionRef.current.  It is not started.
EffectRerun(rs, listening) ==
    Append(StopRec(rs, recognitionRef), [state |-> "idle", listening |-> listening])

\* setIsListening(v) from a handler, with the re-render and the effect it causes
SetIsListening(rs, v) ==
    /\ isListening' = v
    /\ IF v # isListening /\ speechSupported
         THEN /\ recs' = EffectRerun(rs, v)
              /\ recognitionRef' = Len(rs) + 1
         ELSE /\ recs' = rs
              /\ UNCHANGED recognitionRef

\* recognition.onend of recognizer r: `if (isListening)` reads the value the
\* effect run that created r closed over.
OnEndRestarts(r) == recs[r].listening

SpeechInit ==
    /\ speechSupported \in BOOLEAN
    /\ isListening = FALSE
    /\ recs = IF speechSupported THEN <<[state |-> "idle", listening |-> FALSE]>> ELSE <<>>
    /\ recognitionRef = IF speechSupported THEN 1 ELSE 0
    /\ speechError = IF speechSupported THEN "" ELSE "unsupported"
    /\ spTimers = {}
    /\ timerSeq = 0
    /\ processTimeoutRef = 0
    /\ isProcessing = FALSE
    /\ outbox = <<>>
    /\ httpPending = {}
    /\ factChecks = <<>>
    /\ received = [via |-> "none", kind |-> "", data |-> ""]
    /\ wsReceived = 0
    /\ clock = 0

\* toggleListening, the click handler of the microphone button
toggleListening ==
    /\ Len(recs) < MaxRecs
    /\ IF recognitionRef = 0
         THEN UNCHANGED <<isListening, recs, recognitionRef, speechError>>
         ELSE IF isListening
           THEN /\ SetIsListening(StopRec(recs, recognitionRef), FALSE)
                /\ UNCHANGED speechError
           ELSE IF recs[recognitionRef].state = "idle"
             THEN /\ SetIsListening([recs EXCEPT ![recognitionRef].state = "active"], TRUE)
                  /\ speechError' = ""
             ELSE /\ speechError' = "start-failed"
                  /\ UNCHANGED <<isListening, recs, recognitionRef>>
    /\ UNCHANGED <<speechSupported, spTimers, timerSeq, processTimeoutRef, isProcessing,
                   outbox, httpPending, factChecks,
                   received, wsReceived, clock>>
    /\ UNCHANGED notSpeech

\* recognition.onstart
RecOnStart(r) ==
    /\ Started(r)
    /\ speechError # ""
    /\ speechError' = ""
    /\ UNCHANGED <<speechSupported, isListening, recs, recognitionRef, spTimers, timerSeq,
                   processTimeoutRef, isProcessing, outbox, httpPending, factChecks,
                   received, wsReceived, clock>>
    /\ UNCHANGED notSpeech

\* A processSentenceForFactCheck that arms a timer without clearing the pending one.
processSentenceNoClear(sentence) ==
    /\ spTimers' = spTimers \cup {[kind |-> "debounce", id |-> timerSeq + 1, rec |-> 0,
                                     sentence |-> sentence, due |-> clock + DebounceDelay]}
    /\ timerSeq' = timerSeq + 1
    /\ processTimeoutRef' = timerSeq + 1
    /\ isProcessing' = TRUE

\* processSentenceForFactCheck(sentence): cancel the pending timer, arm a new one
processSentenceForFactCheck(sentence) ==
    /\ spTimers' = {t \in spTimers : t.id # processTimeoutRef}
                      \cup {[kind |-> "debounce", id |-> timerSeq + 1, rec |-> 0,
                             sentence |-> sentence, due |-> clock + DebounceDelay]}
    /\ timerSeq' = timerSeq + 1
    /\ processTimeoutRef' = timerSeq + 1
    /\ isProcessing' = TRUE

\* recognition.onresult of a started recognizer r, carrying a final transcript
\* (an empty one when every result of the event is interim)
RecOnResult(r, text) ==
    /\ Started(r)
    /\ IF text.len > 0 /\ Trim(text).len > MinLength
         THEN /\ timerSeq < MaxResults
              /\ clock + DebounceDelay <= MaxClock
              /\ processSentenceForFactCheck(Trim(text))
         ELSE /\ speechError # "result"
              /\ UNCHANGED <<spTimers, timerSeq, processTimeoutRef, isProcessing>>
    /\ UNCHANGED <<speechSupported, isListening, recs, recognitionRef, speechError,
                   outbox, httpPending, factChecks,
                   received, wsReceived, clock>>
    /\ UNCHANGED notSpeech

\* recognition.onerror of a started recognizer
RecOnError(r, kind) ==
    /\ Started(r)
    /\ Len(recs) < MaxRecs
    /\ speechError' = kind
    /\ SetIsListening(recs, FALSE)
    /\ UNCHANGED <<speechSupported, spTimers, timerSeq, processTimeoutRef, isProcessing,
                   outbox, httpPending, factChecks,
                   received, wsReceived, clock>>
    /\ UNCHANGED notSpeech

\* recognition.onend of a started recognizer: it has stopped; restart it after
\* RestartDelay if the handler's isListening says so
RecOnEnd(r) ==
    /\ Started(r)
    /\ recs' = [recs EXCEPT ![r].state = "idle"]
    /\ IF OnEndRestarts(r)
         THEN /\ spTimers' = spTimers \cup {[kind |-> "restart", id |-> timerSeq + 1, rec |-> r,
                                             sentence |-> Trim([id |-> "empty", len |-> 0, pad |-> 0]),
                                             due |-> clock + RestartDelay]}
              /\ timerSeq' = timerSeq + 1
         ELSE UNCHANGED <<spTimers, timerSeq>>
    /\ UNCHANGED <<speechSupported, isListening, recognitionRef, speechError, processTimeoutRef,
                   isProcessing, outbox, httpPending, factChecks,
                   received, wsReceived, clock>>
    /\ UNCHANGED notSpeech

\* The restart timer's callback: recognition.start(), which throws when the
\* recognizer is already started; the catch sets isListening to false.
RestartCallback(t) ==
    /\ IF recs[t.rec].state = "idle"
         THEN /\ recs' = [recs EXCEPT ![t.rec].state = "active"]
              /\ UNCHANGED <<isListening, recognitionRef>>
         ELSE SetIsListening(recs, FALSE)
    /\ UNCHANGED <<isProcessing, outbox, httpPending>>

\* A callback that sends on the WebSocket whenever wsRef holds one.
DebounceCallbackAnyState(t) ==
    /\ IF wsRef # 0
         THEN /\ outbox' = Append(outbox, [channel |-> "ws", sentence |-> t.sentence,
                                           session |-> socks[wsRef].url[2], id |-> t.id])
              /\ isProcessing' = FALSE
              /\ UNCHANGED httpPending
         ELSE /\ outbox' = Append(outbox, [channel |-> "http", sentence |-> t.sentence,
                                           session |-> sessionId, id |-> t.id])
              /\ httpPending' = httpPending \cup {Len(outbox) + 1}
              /\ UNCHANGED isProcessing
    /\ UNCHANGED <<isListening, recs, recognitionRef>>

\* The debounce timer's callback: send on the WebSocket when it is open,
\* otherwise POST to /api/fact-check; isProcessing is reset in the finally
\* block, which for the HTTP branch runs when the response has been handled.
DebounceCallback(t) ==
    /\ IF wsRef # 0 /\ socks[wsRef].state = "OPEN"
         THEN /\ outbox' = Append(outbox, [channel |-> "ws", sentence |-> t.sentence,
                                           session |-> socks[wsRef].url[2], id |-> t.id])
              /\ isProcessing' = FALSE
              /\ UNCHANGED httpPending
         ELSE /\ outbox' = Append(outbox, [channel |-> "http", sentence |-> t.sentence,
                                           session |-> sessionId, id |-> t.id])
              /\ httpPending' = httpPending \cup {Len(outbox) + 1}
              /\ UNCHANGED isProcessing
    /\ UNCHANGED <<isListening, recs, recognitionRef>>

\* A timer of the speech model comes due and its callback runs.
SpeechTimerFire(t) ==
    /\ t \in spTimers
    /\ t.due = clock
    /\ spTimers' = spTimers \ {t}
    /\ IF t.kind = "restart" THEN RestartCallback(t) ELSE DebounceCallback(t)
    /\ UNCHANGED <<speechSupported, speechError, timerSeq, processTimeoutRef, factChecks,
                   received, wsReceived, clock>>
    /\ UNCHANGED notSpeech

\* The response of a POST /api/fact-check arrives (ok), arrives with an error
\* status (notok), or the fetch rejects (error).
HttpFactCheckResponse(n, outcome) ==
    /\ n \in httpPending
    /\ httpPending' = httpPending \ {n}
    /\ factChecks' = IF outcome = "ok" THEN <<outbox[n].sentence.id>> \o factChecks ELSE factChecks
    /\ isProcessing' = FALSE
    /\ received' = [via |-> "http", kind |-> IF outcome = "ok" THEN "ok" ELSE "not-ok",
                    data |-> outbox[n].sentence.id]
    /\ UNCHANGED <<speechSupported, isListening, recs, recognitionRef, speechError, spTimers,
                   timerSeq, processTimeoutRef, outbox, wsReceived, clock>>
    /\ UNCHANGED notSpeech

\* A tenth of a second passes; a timer that is due fires first.
SpeechTick ==
    /\ clock < MaxClock
    /\ \A t \in spTimers : t.due > clock
    /\ clock' = clock + 1
    /\ UNCHANGED <<speechSupported, isListening, recs, recognitionRef, speechError, spTimers,
                   timerSeq, processTimeoutRef, isProcessing, outbox, httpPending, factChecks,
                   received, wsReceived>>
    /\ UNCHANGED notSpeech

\* The readyState of the socket in wsRef changes (the life cycle Spec follows).
WsReadyState(st) ==
    /\ socks[wsRef].state # st
    /\ socks' = [socks EXCEPT ![wsRef].state = st]
    /\ UNCHANGED <<view, sessionId, mounted, wsRef, timers, reconnectTimeoutRef, isConnected, now>>
    /\ UNCHANGED notWs

\* The types of message the server sends on a session's socket.
MsgTypes == {"fact_check_result", "new_fact_check"}

\* What the server can send to this instance: the fact-check of a statement it
\* received on the socket as a transcription_update, under either type.
ServerMessages ==
    {[type |-> ty, data |-> outbox[n].sentence.id] :
        ty \in MsgTypes, n \in {k \in 1..Len(outbox) : outbox[k].channel = "ws"}}

\* An onmessage that puts a result at the end of the list.
onmessageAppends(message_) ==
    IF message_.type = "fact_check_result"
      THEN /\ factChecks' = Append(factChecks, message_.data)
           /\ isProcessing' = FALSE
      ELSE UNCHANGED <<factChecks, isProcessing>>

\* ws.onmessage: a fact_check_result goes to the front of the list, a message
\* of any other type is dropped
onmessage(message_) ==
    IF message_.type = "fact_check_result"
      THEN /\ factChecks' = <<message_.data>> \o factChecks
           /\ isProcessing' = FALSE
      ELSE UNCHANGED <<factChecks, isProcessing>>

\* A message of the server arrives on the open socket and ws.onmessage runs.
WsOnMessage(message_) ==
    /\ wsRef # 0 /\ socks[wsRef].state = "OPEN"
    /\ wsReceived < MaxMessages
    /\ onmessage(message_)
    /\ received' = [via |-> "ws", kind |-> message_.type, data |-> message_.data]
    /\ wsReceived' = wsReceived + 1
    /\ UNCHANGED <<speechSupported, isListening, recs, recognitionRef, speechError, spTimers,
                   timerSeq, processTimeoutRef, outbox, httpPending, clock>>
    /\ UNCHANGED notSpeech

\* clearAll, the click handler of the Clear button, when there is something to clear
clearAll ==
    /\ factChecks # <<>> \/ speechError # ""
    /\ factChecks' = <<>>
    /\ speechError' = ""
    /\ UNCHANGED <<speechSupported, isListening, recs, recognitionRef, spTimers, timerSeq,
                   processTimeoutRef, isProcessing, outbox, httpPending, received, wsReceived, clock>>
    /\ UNCHANGED notSpeech

SpeechNext ==
    \/ toggleListening
    \/ \E r \in 1..Len(recs) : RecOnStart(r)
    \/ \E r \in 1..Len(recs), text \in Texts : RecOnResult(r, text)
    \/ \E r \in 1..Len(recs), kind \in {"not-allowed", "no-speech"} : RecOnError(r, kind)
    \/ \E r \in 1..Len(recs) : RecOnEnd(r)
    \/ \E t \in spTimers : SpeechTimerFire(t)
    \/ \E n \in httpPending, outcome \in {"ok", "notok", "error"} : HttpFactCheckResponse(n, outcome)
    \/ SpeechTick

\* ------------------------------------------------------------------------
\* YouTubeLive: fetchInitialData and handleWebSocketMessage, with the server
\* that stores and broadcasts the records and the two connections (the HTTP
\* exchange and the WebSocket) that carry them.

Videos == {"A", "B"}

\* A message or response body.  gen is not part of it: it records which
\* video session was current at the server when the message was produced.
Msg(type, session, facts, segs, item) ==
    [type |-> type, session |-> session, facts |-> facts, segs |-> segs, item |-> item,
     gen |-> IF type \in {"none", "notok", "rejected"} THEN 0 ELSE srvGen]

\* A stored record: its id and the video (and video session) it belongs to
Item(id) == [id |-> id, video |-> srvVideo, gen |-> srvGen]

\* Server: the snapshot of the current session (session, fact_checks,
\* transcript_segments), with session "none" when no video is set.
Snapshot(type) ==
    IF srvVideo = "none"
      THEN Msg(type, "none", <<>>, <<>>, 0)
      ELSE Msg(type, srvVideo, srvFacts[srvVideo], srvSegs[srvVideo], 0)

\* Server: send a message to the viewers whose socket is connected.
Broadcast(m) == wsChan' = IF conn = "open" THEN Append(wsChan, m) ELSE wsChan

\* setFactChecks(prev => [...prev, message.data])
AppendItem(list, item) == Append(list, item)

\* A handler whose video_changed case leaves the transcript list alone.
handleWebSocketMessageKeepsTranscript(m) ==
    IF m.type = "current_session"
      THEN /\ IF m.session # "none"
                THEN /\ videoSession' = m.session
                     /\ ytFactChecks' = m.facts
                     /\ transcriptSegments' = m.segs
                ELSE UNCHANGED <<videoSession, ytFactChecks, transcriptSegments>>
           /\ loading' = FALSE
           /\ UNCHANGED ytError
    ELSE IF m.type = "new_fact_check"
      THEN /\ ytFactChecks' = AppendItem(ytFactChecks, m.item)
           /\ UNCHANGED <<videoSession, transcriptSegments, loading, ytError>>
    ELSE IF m.type = "new_transcript"
      THEN /\ transcriptSegments' = AppendItem(transcriptSegments, m.item)
           /\ UNCHANGED <<videoSession, ytFactChecks, loading, ytError>>
    ELSE IF m.type = "video_changed"
      THEN /\ videoSession' = m.session
           /\ ytFactChecks' = <<>>
           /\ UNCHANGED <<transcriptSegments, loading, ytError>>
    ELSE IF m.type = "error"
      THEN /\ ytError' = "message"
           /\ UNCHANGED <<videoSession, ytFactChecks, transcriptSegments, loading>>
    ELSE UNCHANGED <<videoSession, ytFactChecks, transcriptSegments, loading, ytError>>

\* handleWebSocketMessage(message)
handleWebSocketMessage(m) ==
    IF m.type = "current_session"
      THEN /\ IF m.session # "none"
                THEN /\ videoSession' = m.session
                     /\ ytFactChecks' = m.facts
                     /\ transcriptSegments' = m.segs
                ELSE UNCHANGED <<videoSession, ytFactChecks, transcriptSegments>>
           /\ loading' = FALSE
           /\ UNCHANGED ytError
    ELSE IF m.type = "new_fact_check"
      THEN /\ ytFactChecks' = AppendItem(ytFactChecks, m.item)
           /\ UNCHANGED <<videoSession, transcriptSegments, loading, ytError>>
    ELSE IF m.type = "new_transcript"
      THEN /\ transcriptSegments' = AppendItem(transcriptSegments, m.item)
           /\ UNCHANGED <<videoSession, ytFactChecks, loading, ytError>>
    ELSE IF m.type = "video_changed"
      THEN /\ videoSession' = m.session
           /\ ytFactChecks' = <<>>
           /\ transcriptSegments' = <<>>
           /\ UNCHANGED <<loading, ytError>>
    ELSE IF m.type = "error"
      THEN /\ ytError' = "message"
           /\ UNCHANGED <<videoSession, ytFactChecks, transcriptSegments, loading>>
    ELSE UNCHANGED <<videoSession, ytFactChecks, transcriptSegments, loading, ytError>>

\* Which video session the viewer shows and which one the WebSocket has
\* announced, after handleWebSocketMessage(m)
Announced(m) ==
    IF (m.type = "current_session" /\ m.session # "none") \/ m.type = "video_changed"
      THEN shownGen' = m.gen /\ wsGen' = m.gen
      ELSE UNCHANGED <<shownGen, wsGen>>

\* The continuation of fetchInitialData once the fetch has settled
fetchInitialData(r) ==
    /\ IF r.type = "ok" /\ r.session # "none"
         THEN /\ videoSession' = r.session
              /\ ytFactChecks' = r.facts
              /\ transcriptSegments' = r.segs
         ELSE UNCHANGED <<videoSession, ytFactChecks, transcriptSegments>>
    /\ ytError' = IF r.type = "rejected" THEN "load" ELSE ytError
    /\ loading' = FALSE
    /\ shownGen' = IF r.type = "ok" /\ r.session # "none" THEN r.gen ELSE shownGen

\* After mount: both effects have run, so the socket is connecting and the
\* current-session request is on its way.  The server may already hold a
\* video session.
ViewerInit ==
    /\ videoSession = "none"
    /\ ytFactChecks = <<>>
    /\ transcriptSegments = <<>>
    /\ loading = TRUE
    /\ ytError = ""
    /\ conn = "connecting"
    /\ connects = 1
    /\ wsChan = <<>>
    /\ wsReqs = 0
    /\ httpState = "requested"
    /\ httpResp = Msg("none", "none", <<>>, <<>>, 0)
    /\ srvVideo \in {"none", "A"}
    /\ srvFacts = [v \in Videos |-> <<>>]
    /\ srvSegs = [v \in Videos |-> <<>>]
    /\ srvSeq = 0
    /\ srvGen = IF srvVideo = "none" THEN 0 ELSE 1
    /\ shownGen = 0
    /\ wsGen = 0

\* ws.onopen: setIsConnected(true), setError(''), send get_current_session
ViewerWsOpen ==
    /\ conn = "connecting"
    /\ conn' = "open"
    /\ ytError' = ""
    /\ wsReqs' = wsReqs + 1
    /\ UNCHANGED <<videoSession, ytFactChecks, transcriptSegments, loading, connects, wsChan,
                   httpState, httpResp, srvVideo, srvFacts, srvSegs, srvSeq, srvGen, shownGen,
                   wsGen>>
    /\ UNCHANGED notViewer

\* ws.onmessage: the oldest message in flight arrives
ViewerWsMessage ==
    /\ conn = "open"
    /\ wsChan # <<>>
    /\ handleWebSocketMessage(Head(wsChan))
    /\ Announced(Head(wsChan))
    /\ wsChan' = Tail(wsChan)
    /\ UNCHANGED <<conn, connects, wsReqs, httpState, httpResp, srvVideo, srvFacts, srvSegs, srvSeq,
                   srvGen>>
    /\ UNCHANGED notViewer

\* The socket drops (ws.onclose); what was in flight on it is lost.
ViewerWsClose ==
    /\ conn \in {"connecting", "open"}
    /\ connects < MaxConnects
    /\ conn' = "closed"
    /\ wsChan' = <<>>
    /\ wsReqs' = 0
    /\ UNCHANGED <<videoSession, ytFactChecks, transcriptSegments, loading, ytError, connects,
                   httpState, httpResp, srvVideo, srvFacts, srvSegs, srvSeq, srvGen, shownGen,
                   wsGen>>
    /\ UNCHANGED notViewer

\* The reconnect timer fires: connectWebSocket
ViewerReconnect ==
    /\ conn = "closed"
    /\ conn' = "connecting"
    /\ connects' = connects + 1
    /\ UNCHANGED <<videoSession, ytFactChecks, transcriptSegments, loading, ytError, wsChan,
                   wsReqs, httpState, httpResp, srvVideo, srvFacts, srvSegs, srvSeq, srvGen,
                   shownGen, wsGen>>
    /\ UNCHANGED notViewer

\* The fetch of fetchInitialData settles: the response arrives, or it rejects.
ViewerHttpSettle(rejected) ==
    /\ httpState = "responded" \/ (rejected /\ httpState = "requested")
    /\ httpState' = "done"
    /\ fetchInitialData(IF rejected THEN Msg("rejected", "none", <<>>, <<>>, 0) ELSE httpResp)
    /\ UNCHANGED <<conn, connects, wsChan, wsReqs, httpResp, srvVideo, srvFacts, srvSegs, srvSeq,
                   srvGen, wsGen>>
    /\ UNCHANGED notViewer

\* Server: GET /api/youtube/current-session answers with the snapshot, or
\* with an error status.
SrvCurrentSession(ok) ==
    /\ httpState = "requested"
    /\ httpState' = "responded"
    /\ httpResp' = IF ok THEN Snapshot("ok") ELSE Msg("notok", "none", <<>>, <<>>, 0)
    /\ UNCHANGED <<videoSession, ytFactChecks, transcriptSegments, loading, ytError, conn,
                   connects, wsChan, wsReqs, srvVideo, srvFacts, srvSegs, srvSeq, srvGen,
                   shownGen, wsGen>>
    /\ UNCHANGED notViewer

\* Server: a get_current_session request is answered on the same socket.
SrvGetCurrentSession ==
    /\ conn = "open"
    /\ wsReqs > 0
    /\ wsReqs' = wsReqs - 1
    /\ wsChan' = Append(wsChan, Snapshot("current_session"))
    /\ UNCHANGED <<videoSession, ytFactChecks, transcriptSegments, loading, ytError, conn,
                   connects, httpState, httpResp, srvVideo, srvFacts, srvSegs, srvSeq, srvGen,
                   shownGen, wsGen>>
    /\ UNCHANGED notViewer

\* Server: the admin sets a new video; video_changed is broadcast.
SrvSetVideo(v) ==
    /\ srvSeq < MaxRecords
    /\ v # srvVideo
    /\ srvVideo' = v
    /\ srvSeq' = srvSeq + 1
    /\ srvGen' = srvGen + 1
    /\ Broadcast([Msg("video_changed", v, <<>>, <<>>, 0) EXCEPT !.gen = srvGen + 1])
    /\ UNCHANGED <<videoSession, ytFactChecks, transcriptSegments, loading, ytError, conn,
                   connects, wsReqs, httpState, httpResp, srvFacts, srvSegs, shownGen, wsGen>>
    /\ UNCHANGED notViewer

\* Server: a fact-check of the current video is stored, then broadcast.
SrvNewFactCheck ==
    /\ srvSeq < MaxRecords
    /\ srvVideo # "none"
    /\ srvSeq' = srvSeq + 1
    /\ srvFacts' = [srvFacts EXCEPT ![srvVideo] = Append(@, Item(srvSeq + 1))]
    /\ Broadcast(Msg("new_fact_check", "none", <<>>, <<>>, Item(srvSeq + 1)))
    /\ UNCHANGED <<videoSession, ytFactChecks, transcriptSegments, loading, ytError, conn,
                   connects, wsReqs, httpState, httpResp, srvVideo, srvSegs, srvGen, shownGen,
                   wsGen>>
    /\ UNCHANGED notViewer

\* Server: a transcript segment of the current video is stored, then broadcast.
SrvNewTranscript ==
    /\ srvSeq < MaxRecords
    /\ srvVideo # "none"
    /\ srvSeq' = srvSeq + 1
    /\ srvSegs' = [srvSegs EXCEPT ![srvVideo] = Append(@, Item(srvSeq + 1))]
    /\ Broadcast(Msg("new_transcript", "none", <<>>, <<>>, Item(srvSeq + 1)))
    /\ UNCHANGED <<videoSession, ytFactChecks, transcriptSegments, loading, ytError, conn,
                   connects, wsReqs, httpState, httpResp, srvVideo, srvFacts, srvGen, shownGen,
                   wsGen>>
    /\ UNCHANGED notViewer

ViewerNext ==
    \/ ViewerWsOpen
    \/ ViewerWsMessage
    \/ ViewerWsClose
    \/ ViewerReconnect
    \/ \E rejected \in BOOLEAN : ViewerHttpSettle(rejected)
    \/ \E ok \in BOOLEAN : SrvCurrentSession(ok)
    \/ SrvGetCurrentSession
    \/ \E v \in Videos : SrvSetVideo(v)
    \/ SrvNewFactCheck
    \/ SrvNewTranscript

\* ------------------------------------------------------------------------
\* The REST back end (backend/server.py): health, fact-check, transcription
\* and session retrieval, and TruthSeeker's checkHealth.

Verdicts == {"True", "False", "Partially True", "Unverified"}

\* Statements a request can carry: length and the keyword of the mock table
\* the text contains ("none" when it contains none of them).
Statements == {[id |-> "empty", len |-> 0, key |-> "none"],
               [id |-> "round", len |-> 18, key |-> "earth is round"],
               [id |-> "flat", len |-> 17, key |-> "earth is flat"],
               [id |-> "hi", len |-> 10, key |-> "none"],
               [id |-> "misc", len |-> 30, key |-> "none"]}

\* Session and video ids; only "s1" ever gets records.
Keys == {"s1", "unknown"}

\* What the call of the external provider can come to: a verdict, or a failure.
ProviderOutcomes == {"True", "Partially True", "failed"}

\* A mock table whose default entry carries a verdict outside the enum.
MockLookupUnknown(st) ==
    IF st.key = "earth is round" THEN [verdict |-> "True", confidence |-> 90]
    ELSE IF st.key = "earth is flat" THEN [verdict |-> "False", confidence |-> 95]
    ELSE [verdict |-> "Unknown", confidence |-> 50]

\* The static mock response table, keyed by substring matches on the
\* statement; confidence in hundredths.
MockLookup(st) ==
    IF st.key = "earth is round" THEN [verdict |-> "True", confidence |-> 90]
    ELSE IF st.key = "earth is flat" THEN [verdict |-> "False", confidence |-> 95]
    ELSE [verdict |-> "Unverified", confidence |-> 50]

Result(st, verdict, confidence, by) ==
    [status |-> 200, statement |-> st.id, verdict |-> verdict, confidence |-> confidence,
     explanation |-> by, sources |-> IF by = "provider" THEN <<"source">> ELSE <<>>,
     fact_checks |-> <<>>, flag |-> FALSE, processing |-> ""]

ErrorResponse(code) ==
    [status |-> code, statement |-> "", verdict |-> "", confidence |-> 0,
     explanation |-> "", sources |-> <<>>, fact_checks |-> <<>>, flag |-> FALSE,
     processing |-> ""]

\* A fact-check that lets a provider failure through as HTTP 500.
FactCheckNoFallback(st, provider) ==
    IF perplexityKey /\ provider = "failed" THEN ErrorResponse(500)
    ELSE IF perplexityKey THEN Result(st, provider, 80, "provider")
    ELSE Result(st, MockLookup(st).verdict, MockLookup(st).confidence, "mock")

\* The fact-check of one statement: the external provider when a key is
\* configured and the call succeeds (provider is the verdict it returned),
\* the mock table otherwise.
FactCheck(st, provider) ==
    IF perplexityKey /\ provider # "failed"
      THEN Result(st, provider, 80, "provider")
      ELSE Result(st, MockLookup(st).verdict, MockLookup(st).confidence, "mock")

\* A retrieval that answers 404 for an id without records.
SessionFactChecksStrict(id) ==
    IF dbFacts[id] = <<>> THEN ErrorResponse(404)
    ELSE [ErrorResponse(200) EXCEPT !.fact_checks = dbFacts[id]]

\* GET /api/sessions/{id}/fact-checks and /api/youtube/sessions/{id}/fact-checks
SessionFactChecks(id) == [ErrorResponse(200) EXCEPT !.fact_checks = dbFacts[id]]

\* A transcription handler that fact-checks interim text as well.
TranscriptionChecksAll(st, is_final) == st.len > 10

\* POST /api/transcription: whether the text is fact-checked
TranscriptionChecks(st, is_final) == is_final /\ st.len > 10

\* GET /api/health
Health == [ErrorResponse(200) EXCEPT !.flag = perplexityKey]

Request(kind, st, key, is_final, provider) ==
    [kind |-> kind, st |-> st, key |-> key, is_final |-> is_final, provider |-> provider]

\* The provider is called only when a key is configured and a fact-check runs.
ProviderCall(needed, provider) ==
    IF perplexityKey /\ needed THEN provider ELSE "not-called"

\* A JavaScript boolean, next to the value undefined
JsBool(b) == IF b THEN "true" ELSE "false"

ApiInit ==
    /\ perplexityKey \in BOOLEAN
    /\ dbFacts = [k \in Keys |-> <<>>]
    /\ reqSeq = 0
    /\ lastReq = Request("none", "empty", "unknown", FALSE, "not-called")
    /\ lastResp = ErrorResponse(0)
    /\ fcRuns = 0
    /\ apiConfigured = JsBool(FALSE)
    /\ healthOutcome = "none"

\* POST /api/fact-check {statement, session_id}
ApiFactCheck(st, key, provider) ==
    /\ reqSeq < MaxRequests
    /\ key # "unknown"
    /\ perplexityKey \/ provider = "failed"
    /\ reqSeq' = reqSeq + 1
    /\ lastReq' = Request("fact-check", st.id, key, TRUE, ProviderCall(TRUE, provider))
    /\ lastResp' = FactCheck(st, provider)
    /\ fcRuns' = 1
    /\ dbFacts' = IF FactCheck(st, provider).status = 200
                    THEN [dbFacts EXCEPT ![key] = Append(@, FactCheck(st, provider))]
                    ELSE dbFacts
    /\ UNCHANGED <<perplexityKey, apiConfigured, healthOutcome>>
    /\ UNCHANGED notApi

\* POST /api/transcription {text, is_final, session_id}
ApiTranscription(st, key, is_final, provider) ==
    /\ reqSeq < MaxRequests
    /\ key # "unknown"
    /\ (perplexityKey /\ TranscriptionChecks(st, is_final)) \/ provider = "failed"
    /\ reqSeq' = reqSeq + 1
    /\ lastReq' = Request("transcription", st.id, key, is_final,
                          ProviderCall(TranscriptionChecks(st, is_final), provider))
    /\ IF TranscriptionChecks(st, is_final)
         THEN /\ lastResp' = [FactCheck(st, provider) EXCEPT !.processing = "processed"]
              /\ fcRuns' = 1
              /\ dbFacts' = [dbFacts EXCEPT ![key] = Append(@, FactCheck(st, provider))]
         ELSE /\ lastResp' = [ErrorResponse(200) EXCEPT !.processing = "received"]
              /\ fcRuns' = 0
              /\ UNCHANGED dbFacts
    /\ UNCHANGED <<perplexityKey, apiConfigured, healthOutcome>>
    /\ UNCHANGED notApi

\* GET .../sessions/{id}/fact-checks
ApiSessionFactChecks(key) ==
    /\ reqSeq < MaxRequests
    /\ reqSeq' = reqSeq + 1
    /\ lastReq' = Request("fact-checks", "empty", key, FALSE, "not-called")
    /\ lastResp' = SessionFactChecks(key)
    /\ fcRuns' = 0
    /\ UNCHANGED <<perplexityKey, dbFacts, apiConfigured, healthOutcome>>
    /\ UNCHANGED notApi

\* A checkHealth that turns demo mode off whenever the fetch resolves.
checkHealthOptimistic(outcome, body) ==
    IF outcome \in {"ok", "errjson"} THEN JsBool(TRUE) ELSE apiConfigured

\* checkHealth when its fetch has settled: "ok", a 200 answer of the health
\* endpoint; "errjson", an error status with a JSON body that has no
\* perplexity_api_configured; "badbody", a body that is not JSON; "rejected",
\* a network error.  The code does not look at response.ok.
checkHealth(outcome, body) ==
    IF outcome = "ok" THEN JsBool(body.flag)
    ELSE IF outcome = "errjson" THEN "undefined"
    ELSE apiConfigured

\* TruthSeeker's health check runs once, at mount.
ApiHealthCheck(outcome) ==
    /\ healthOutcome = "none"
    /\ healthOutcome' = outcome
    /\ apiConfigured' = checkHealth(outcome, Health)
    /\ IF outcome = "ok"
         THEN /\ lastReq' = Request("health", "empty", "unknown", FALSE, "not-called")
              /\ lastResp' = Health
              /\ fcRuns' = 0
         ELSE UNCHANGED <<lastReq, lastResp, fcRuns>>
    /\ UNCHANGED <<perplexityKey, dbFacts, reqSeq>>
    /\ UNCHANGED notApi

\* !apiConfigured: the Demo Mode banner is rendered
DemoMode == apiConfigured \in {"false", "undefined"}

ApiNext ==
    \/ \E st \in Statements, key \in Keys, provider \in ProviderOutcomes :
          ApiFactCheck(st, key, provider)
    \/ \E st \in Statements, key \in Keys, is_final \in BOOLEAN, provider \in ProviderOutcomes :
          ApiTranscription(st, key, is_final, provider)
    \/ \E key \in Keys : ApiSessionFactChecks(key)
    \/ \E outcome \in {"ok", "errjson", "badbody", "rejected"} : ApiHealthCheck(outcome)

\* ------------------------------------------------------------------------
\* deploy.sh: main runs eight functions under `set -e`.

\* set -e
SetE == TRUE

\* The calls of main in the order the functions are defined in the file.
MainAsDefined ==
    <<"check_prerequisites", "get_api_keys", "build_and_push_image", "build_frontend",
      "deploy_infrastructure", "upload_frontend", "invalidate_cloudfront", "show_outputs">>

\* main: the deployment steps, in call order
Main ==
    <<"check_prerequisites", "get_api_keys", "build_frontend", "build_and_push_image",
      "deploy_infrastructure", "upload_frontend", "invalidate_cloudfront", "show_outputs">>

\* A command of a function.  mode: "guard" (if ! cmd; then log_error; exit 1),
\* "errexit" (a simple command, a pipeline by its last command, a plain
\* assignment from $(...)), "select" (the condition of an if, or the left
\* side of ||: its status only chooses what runs next), "masked" (the left
\* side of a pipeline: its status is dropped), "prompt" (read -s into an
\* empty key), "keys" (the test that both keys are non-empty), "echo".
\* when: "" or the outcome of the last condition under which it runs.
Cmd(name, mode, when) == [name |-> name, mode |-> mode, when |-> when]

Script ==
    [check_prerequisites |->
        <<Cmd("command -v aws", "guard", ""),
          Cmd("command -v docker", "guard", ""),
          Cmd("aws sts get-caller-identity", "guard", "")>>,
     get_api_keys |->
        <<Cmd("read PERPLEXITY_API_KEY", "prompt", ""),
          Cmd("read OPENAI_API_KEY", "prompt", ""),
          Cmd("both keys", "keys", "")>>,
     build_frontend |->
        <<Cmd("cd ../frontend", "errexit", ""),
          Cmd("! command -v yarn", "select", ""),
          Cmd("npm install", "errexit", "yes"),
          Cmd("npm run build", "errexit", "yes"),
          Cmd("yarn install", "errexit", "no"),
          Cmd("yarn build", "errexit", "no"),
          Cmd("cd ../deploy", "errexit", "")>>,
     build_and_push_image |->
        <<Cmd("ACCOUNT_ID=$(aws sts get-caller-identity)", "errexit", ""),
          Cmd("aws ecr describe-repositories", "select", ""),
          Cmd("aws ecr create-repository", "errexit", "no"),
          Cmd("aws ecr get-login-password", "masked", ""),
          Cmd("docker login", "errexit", ""),
          Cmd("cd ..", "errexit", ""),
          Cmd("docker build", "errexit", ""),
          Cmd("docker tag", "errexit", ""),
          Cmd("docker push", "errexit", ""),
          Cmd("cd deploy", "errexit", "")>>,
     deploy_infrastructure |->
        <<Cmd("aws cloudformation deploy", "errexit", "")>>,
     upload_frontend |->
        <<Cmd("BUCKET_NAME=$(aws cloudformation describe-stacks)", "errexit", ""),
          Cmd("aws s3 sync", "errexit", "")>>,
     invalidate_cloudfront |->
        <<Cmd("DISTRIBUTION_ID=$(aws cloudformation describe-stacks)", "errexit", ""),
          Cmd("DISTRIBUTION_ID is set", "select", ""),
          Cmd("aws cloudfront create-invalidation", "errexit", "yes"),
          Cmd("log_warning", "echo", "no")>>,
     show_outputs |->
        <<Cmd("FRONTEND_URL=$(aws cloudformation describe-stacks)", "errexit", ""),
          Cmd("BACKEND_URL=$(aws cloudformation describe-stacks)", "errexit", ""),
          Cmd("echo URLs", "echo", "")>>]

Body(step) == Script[Main[step]]

\* The next command that runs at or after command c of function `step`, given
\* the outcome of the last condition; step Len(Main) + 1 when main is over.
RECURSIVE NextPos(_, _, _)
NextPos(step, c, branch) ==
    IF step > Len(Main) THEN [step |-> step, cmd |-> 1]
    ELSE IF c > Len(Body(step)) THEN NextPos(step + 1, 1, branch)
    ELSE IF Body(step)[c].when \notin {"", branch} THEN NextPos(step, c + 1, branch)
    ELSE [step |-> step, cmd |-> c]

Current == Body(dPos.step)[dPos.cmd]

DeployInit ==
    /\ dPos = [step |-> 1, cmd |-> 1]
    /\ dStatus = "running"
    /\ dExit = 0
    /\ dBranch = ""
    /\ dStarted = <<Main[1]>>
    /\ dReturned = <<>>
    /\ dFailed = {}
    /\ keyP \in BOOLEAN
    /\ keyO \in BOOLEAN
    /\ dLog = {}

\* exit: the EXIT trap (cleanup) prints "Deployment failed!" on a non-zero status
Exit(code, log) ==
    /\ dStatus' = IF code = 0 THEN "done" ELSE "exited"
    /\ dExit' = code
    /\ dLog' = dLog \cup log \cup (IF code # 0 THEN {"Deployment failed!"} ELSE {})
    /\ UNCHANGED <<dPos, dStarted, dReturned>>

\* Go on with the command after the current one.
Continue(branch, log) ==
    LET n == NextPos(dPos.step, dPos.cmd + 1, branch) IN
    IF n.step > Len(Main)
      THEN /\ dStatus' = "done"
           /\ dExit' = 0
           /\ dLog' = dLog \cup log
           /\ dReturned' = Append(dReturned, Main[dPos.step])
           /\ UNCHANGED <<dPos, dStarted>>
      ELSE /\ dPos' = n
           /\ dLog' = dLog \cup log
           /\ dStarted' = IF n.step # dPos.step THEN Append(dStarted, Main[n.step]) ELSE dStarted
           /\ dReturned' = IF n.step # dPos.step THEN Append(dReturned, Main[dPos.step])
                                                 ELSE dReturned
           /\ UNCHANGED <<dStatus, dExit>>

\* The shell runs the current command, which ends with status rc; `typed`
\* says whether a non-empty key came in at a prompt.  read ends with status
\* 1 at the end of its input, with whatever came before it in the variable.
DeployRun(rc, typed) ==
    /\ dStatus = "running"
    /\ IF Current.mode = "guard" THEN
            /\ UNCHANGED <<dBranch, keyP, keyO>>
            /\ dFailed' = IF rc # 0 THEN dFailed \cup {Current.name} ELSE dFailed
            /\ IF rc # 0 THEN Exit(1, {}) ELSE Continue(dBranch, {})
       ELSE IF Current.mode = "errexit" THEN
            /\ UNCHANGED <<dBranch, keyP, keyO>>
            /\ dFailed' = IF rc # 0 THEN dFailed \cup {Current.name} ELSE dFailed
            /\ IF rc # 0 /\ SetE THEN Exit(rc, {}) ELSE Continue(dBranch, {})
       ELSE IF Current.mode = "select" THEN
            /\ rc \in {0, 1}
            /\ dBranch' = IF rc = 0 THEN "yes" ELSE "no"
            /\ UNCHANGED <<dFailed, keyP, keyO>>
            /\ Continue(IF rc = 0 THEN "yes" ELSE "no", {})
       ELSE IF Current.mode = "masked" THEN
            /\ UNCHANGED <<dBranch, dFailed, keyP, keyO>>
            /\ Continue(dBranch, {})
       ELSE IF Current.mode = "prompt" THEN
            LET isP == Current.name = "read PERPLEXITY_API_KEY"
                has == IF isP THEN keyP ELSE keyO IN
            /\ rc \in {0, 1}
            /\ has => rc = 0 /\ typed
            /\ UNCHANGED dBranch
            /\ keyP' = IF isP /\ ~has THEN typed ELSE keyP
            /\ keyO' = IF ~isP /\ ~has THEN typed ELSE keyO
            /\ dFailed' = IF rc # 0 THEN dFailed \cup {Current.name} ELSE dFailed
            /\ IF rc # 0 /\ SetE THEN Exit(rc, {}) ELSE Continue(dBranch, {})
       ELSE IF Current.mode = "keys" THEN
            /\ rc = 0
            /\ UNCHANGED <<dBranch, keyP, keyO>>
            /\ dFailed' = IF keyP /\ keyO THEN dFailed ELSE dFailed \cup {Current.name}
            /\ IF keyP /\ keyO THEN Continue(dBranch, {})
                               ELSE Exit(1, {"Both API keys are required"})
       ELSE /\ rc = 0
            /\ UNCHANGED <<dBranch, dFailed, keyP, keyO>>
            /\ Continue(dBranch, {Current.name})
    /\ UNCHANGED notDeploy

DeployNext == \E rc \in 0..2, typed \in BOOLEAN : DeployRun(rc, typed)

\* ------------------------------------------------------------------------
\* AdminPanel: the state of the component, its handlers, and the responses
\* of the four endpoints it calls.

\* What the URL field can hold: empty, or a URL.
Urls == {"", "urlA", "urlB"}

\* adminKey === 'admin123' || adminKey === process.env.REACT_APP_ADMIN_KEY
AdminKeys == {"admin123", "env-key"}

\* How a fetch ends: a response whose body parses as JSON ("json", with
\* response.ok, data.success and the video or session the body names), a
\* response whose body does not parse ("badbody": response.json() throws), or
\* a rejected fetch.
Response(kind, ok, success, video) ==
    [kind |-> kind, ok |-> ok, success |-> success, video |-> video]

Responses ==
    {Response("json", ok, success, v) : ok \in BOOLEAN, success \in BOOLEAN, v \in {"A", "B"}}
        \cup {Response("badbody", FALSE, FALSE, "none"), Response("rejected", FALSE, FALSE, "none")}

Settle(q, resp) ==
    /\ adminReqs' = adminReqs \ {q}
    /\ adminLast' = [id |-> q.id, kind |-> q.kind, resp |-> resp]

\* response.ok && data.success
Succeeded(resp) == resp.kind = "json" /\ resp.ok /\ resp.success

AdminRequest(n, kind, arg) == [id |-> n, kind |-> kind, arg |-> arg]

\* After mount: the effect has called fetchCurrentSession.
AdminInit ==
    /\ videoUrl = ""
    /\ currentSession = "none"
    /\ isLoading = FALSE
    /\ message = ""
    /\ adminIsProcessing = FALSE
    /\ isAuthenticated = FALSE
    /\ adminReqs = {AdminRequest(0, "current-session", "")}
    /\ adminSeq = 0
    /\ adminLast = [id |-> 0, kind |-> "none", resp |-> Response("rejected", FALSE, FALSE, "none")]
    /\ workflow = "set"

\* fetchCurrentSession once its fetch has settled; the body's session is null
\* when no video is set
fetchCurrentSession(resp, session) ==
    currentSession' = IF resp.kind = "json" /\ resp.ok THEN session ELSE currentSession

AdminCurrentSessionSettle(q, resp, session) ==
    /\ q \in adminReqs /\ q.kind = "current-session"
    /\ resp.kind = "json" /\ resp.ok => resp.video = "A" /\ resp.success
    /\ ~(resp.kind = "json" /\ resp.ok) => session = "none" /\ resp.video \in {"A", "none"} /\ ~resp.success
    /\ Settle(q, [resp EXCEPT !.video = session])
    /\ fetchCurrentSession(resp, session)
    /\ UNCHANGED <<videoUrl, isLoading, message, adminIsProcessing, isAuthenticated, adminSeq,
                   workflow>>
    /\ UNCHANGED notAdmin

\* handleAuth, the submit handler of the login form
handleAuth(adminKey) ==
    /\ ~isAuthenticated
    /\ IF adminKey \in AdminKeys
         THEN /\ isAuthenticated' = TRUE
              /\ message' = ""
         ELSE /\ message' = "Invalid admin key"
              /\ UNCHANGED isAuthenticated
    /\ UNCHANGED <<videoUrl, currentSession, isLoading, adminIsProcessing, adminReqs, adminSeq,
                   adminLast, workflow>>
    /\ UNCHANGED notAdmin

\* onChange of the URL field: setVideoUrl(e.target.value)
setVideoUrl(url) ==
    /\ isAuthenticated
    /\ url # videoUrl
    /\ videoUrl' = url
    /\ UNCHANGED <<currentSession, isLoading, message, adminIsProcessing, isAuthenticated,
                   adminReqs, adminSeq, adminLast, workflow>>
    /\ UNCHANGED notAdmin

\* The admin's place in the documented workflow "set a video, start
\* processing, stop": the step that is due, or "left" once a click came out
\* of turn or before the response to the click before it.  A step is over
\* when its response has arrived (set a video: when it has succeeded).
Click(step) ==
    IF workflow = step /\ \A q \in adminReqs : q.kind = "current-session"
      THEN workflow ELSE "left"

Settled(step, next) == IF workflow = step THEN next ELSE workflow

\* handleSetVideo up to its fetch; the Set Video button is disabled while isLoading
handleSetVideo ==
    /\ isAuthenticated
    /\ ~isLoading
    /\ IF videoUrl = ""
         THEN /\ message' = "Please enter a valid YouTube URL"
              /\ UNCHANGED <<isLoading, adminReqs, adminSeq, workflow>>
         ELSE /\ adminSeq < MaxAdminRequests
              /\ isLoading' = TRUE
              /\ message' = ""
              /\ adminReqs' = adminReqs \cup {AdminRequest(adminSeq + 1, "set-video", videoUrl)}
              /\ adminSeq' = adminSeq + 1
              /\ workflow' = Click("set")
    /\ UNCHANGED <<videoUrl, currentSession, adminIsProcessing, isAuthenticated, adminLast>>
    /\ UNCHANGED notAdmin

\* A set-video continuation that takes every parsed body for a success.
SetVideoResponseAnyBody(resp) ==
    /\ IF resp.kind = "json"
         THEN /\ message' = "Video set successfully"
              /\ currentSession' = resp.video
              /\ videoUrl' = ""
         ELSE /\ message' = "Network error"
              /\ UNCHANGED <<currentSession, videoUrl>>
    /\ isLoading' = FALSE

\* handleSetVideo from `const data = await response.json()` on
SetVideoResponse(resp) ==
    /\ IF Succeeded(resp)
         THEN /\ message' = "Video set successfully"
              /\ currentSession' = resp.video
              /\ videoUrl' = ""
         ELSE /\ message' = IF resp.kind = "json" THEN "Error: set video" ELSE "Network error"
              /\ UNCHANGED <<currentSession, videoUrl>>
    /\ isLoading' = FALSE

AdminSetVideoSettle(q, resp) ==
    /\ q \in adminReqs /\ q.kind = "set-video"
    /\ resp.kind = "json" => resp.video = (IF q.arg = "urlA" THEN "A" ELSE "B")
    /\ Settle(q, resp)
    /\ SetVideoResponse(resp)
    /\ workflow' = IF Succeeded(resp) THEN Settled("set", "start") ELSE workflow
    /\ UNCHANGED <<adminIsProcessing, isAuthenticated, adminSeq>>
    /\ UNCHANGED notAdmin

\* handleStartProcessing up to its fetch; the button exists while there is a
\* current session and is disabled while isProcessing
handleStartProcessing ==
    /\ isAuthenticated
    /\ currentSession # "none"
    /\ ~adminIsProcessing
    /\ adminSeq < MaxAdminRequests
    /\ adminIsProcessing' = TRUE
    /\ message' = ""
    /\ adminReqs' = adminReqs \cup {AdminRequest(adminSeq + 1, "start-processing", currentSession)}
    /\ adminSeq' = adminSeq + 1
    /\ workflow' = Click("start")
    /\ UNCHANGED <<videoUrl, currentSession, isLoading, isAuthenticated, adminLast>>
    /\ UNCHANGED notAdmin

\* handleStartProcessing from `const data = await response.json()` on
AdminStartSettle(q, resp) ==
    /\ q \in adminReqs /\ q.kind = "start-processing"
    /\ resp.kind = "json" => resp.video = q.arg
    /\ Settle(q, resp)
    /\ message' = IF Succeeded(resp) THEN "Processing started successfully"
                  ELSE IF resp.kind = "json" THEN "Error starting processing"
                  ELSE "Network error"
    /\ workflow' = Settled("start", "stop")
    /\ UNCHANGED <<videoUrl, currentSession, isLoading, adminIsProcessing, isAuthenticated,
                   adminSeq>>
    /\ UNCHANGED notAdmin

\* handleStopProcessing up to its fetch; the button is disabled unless isProcessing
handleStopProcessing ==
    /\ isAuthenticated
    /\ currentSession # "none"
    /\ adminIsProcessing
    /\ adminSeq < MaxAdminRequests
    /\ adminReqs' = adminReqs \cup {AdminRequest(adminSeq + 1, "stop-processing", "")}
    /\ adminSeq' = adminSeq + 1
    /\ workflow' = Click("stop")
    /\ UNCHANGED <<videoUrl, currentSession, isLoading, message, adminIsProcessing,
                   isAuthenticated, adminLast>>
    /\ UNCHANGED notAdmin

\* handleStopProcessing from `const data = await response.json()` on
StopResponse(resp) ==
    /\ message' = IF Succeeded(resp) THEN "Processing stopped"
                  ELSE IF resp.kind = "json" THEN "Error stopping processing"
                  ELSE "Network error"
    /\ adminIsProcessing' = IF Succeeded(resp) THEN FALSE ELSE adminIsProcessing

AdminStopSettle(q, resp) ==
    /\ q \in adminReqs /\ q.kind = "stop-processing"
    /\ resp.kind = "json" => resp.video = "A"
    /\ Settle(q, resp)
    /\ StopResponse(resp)
    /\ workflow' = Settled("stop", "set")
    /\ UNCHANGED <<videoUrl, currentSession, isLoading, isAuthenticated, adminSeq>>
    /\ UNCHANGED notAdmin

AdminNext ==
    \/ \E q \in adminReqs, resp \in Responses, session \in {"none", "A"} :
          AdminCurrentSessionSettle(q, resp, session)
    \/ \E adminKey \in AdminKeys \cup {"wrong"} : handleAuth(adminKey)
    \/ \E url \in Urls : setVideoUrl(url)
    \/ handleSetVideo
    \/ \E q \in adminReqs, resp \in Responses : AdminSetVideoSettle(q, resp)
    \/ handleStartProcessing
    \/ \E q \in adminReqs, resp \in Responses : AdminStartSettle(q, resp)
    \/ handleStopProcessing
    \/ \E q \in adminReqs, resp \in Responses : AdminStopSettle(q, resp)

\* ------------------------------------------------------------------------
\* Specifications

\* Spec: the WebSocket life cycle of one component instance, either view.
ApiIdle == ApiInit /\ ~perplexityKey

DeployIdle == DeployInit /\ keyP /\ keyO

AdminIdle == AdminInit

Init ==
    /\ WSInit
    /\ SpeechInit /\ speechSupported
    /\ ViewerInit /\ srvVideo = "none"
    /\ ApiIdle
    /\ DeployIdle
    /\ AdminIdle

Next == WSNext

Spec == Init /\ [][Next]_vars

\* SpecSpeech: speech recognition and submission of one TruthSeeker instance.
InitSpeech ==
    /\ WSInit /\ view = "solo" /\ sessionId = "session_a"
    /\ SpeechInit
    /\ ViewerInit /\ srvVideo = "none"
    /\ ApiIdle
    /\ DeployIdle
    /\ AdminIdle

NextSpeech ==
    \/ SpeechNext
    \/ \E st \in {"OPEN", "CLOSED"} : WsReadyState(st)

SpecSpeech == InitSpeech /\ [][NextSpeech]_vars

\* FairSpecSpeech: the same, where time passes and a timer that is due runs.
FairSpecSpeech ==
    SpecSpeech /\ WF_vars(SpeechTick) /\ WF_vars(\E t \in spTimers : SpeechTimerFire(t))

\* SpecSolo: the same instance with the messages its server sends and the
\* Clear button.
NextSolo ==
    \/ NextSpeech
    \/ \E m \in ServerMessages : WsOnMessage(m)
    \/ clearAll

SpecSolo == InitSpeech /\ [][NextSolo]_vars

\* SpecSession: the connections and the submissions of one TruthSeeker
\* instance, whose session id is either of the ids.
InitSession ==
    /\ WSInit /\ view = "solo"
    /\ SpeechInit /\ speechSupported
    /\ ViewerInit /\ srvVideo = "none"
    /\ ApiIdle
    /\ DeployIdle
    /\ AdminIdle

NextSession ==
    \/ \E i \in 1..Len(socks) : SockOpen(i)
    \/ \E i \in 1..Len(socks) : SockClose(i)
    \/ \E t \in timers : TimerFire(t)
    \/ Tick
    \/ toggleListening
    \/ \E r \in 1..Len(recs), text \in Texts : RecOnResult(r, text)
    \/ \E t \in spTimers : SpeechTimerFire(t)
    \/ SpeechTick

SpecSession == InitSession /\ [][NextSession]_vars

\* SpecViewer: one YouTubeLive instance, its server and the network.
InitViewer ==
    /\ WSInit /\ view = "yt"
    /\ SpeechInit /\ speechSupported
    /\ ViewerInit
    /\ ApiIdle
    /\ DeployIdle
    /\ AdminIdle

NextViewer == ViewerNext

SpecViewer == InitViewer /\ [][NextViewer]_vars

\* SpecBackend: the REST back end and the health check of one TruthSeeker.
InitBackend ==
    /\ WSInit /\ view = "solo" /\ sessionId = "session_a"
    /\ SpeechInit /\ speechSupported
    /\ ViewerInit /\ srvVideo = "none"
    /\ ApiInit
    /\ DeployIdle
    /\ AdminIdle

NextBackend == ApiNext

SpecBackend == InitBackend /\ [][NextBackend]_vars

\* SpecDeploy: one run of deploy.sh.
InitDeploy ==
    /\ WSInit /\ view = "solo" /\ sessionId = "session_a"
    /\ SpeechInit /\ speechSupported
    /\ ViewerInit /\ srvVideo = "none"
    /\ ApiIdle
    /\ DeployInit
    /\ AdminIdle

NextDeploy == DeployNext

SpecDeploy == InitDeploy /\ [][NextDeploy]_vars

\* SpecAdmin: one AdminPanel instance and the responses to its requests.
InitAdmin ==
    /\ WSInit /\ view = "solo" /\ sessionId = "session_a"
    /\ SpeechInit /\ speechSupported
    /\ ViewerInit /\ srvVideo = "none"
    /\ ApiIdle
    /\ DeployIdle
    /\ AdminInit

NextAdmin == AdminNext

SpecAdmin == InitAdmin /\ [][NextAdmin]_vars

\* ------------------------------------------------------------------------
\* C2: whenever a started recognizer ends while isListening is true, a
\* restart of that recognizer is scheduled RestartDelay later.
C2_RestartOnEnd ==
    [][\A r \in 1..Len(recs) :
          (isListening /\ Started(r) /\ recs'[r].state = "idle")
             => \E t \in spTimers' : t.kind = "restart" /\ t.rec = r
                                        /\ t.due = clock + RestartDelay]_vars

\* ------------------------------------------------------------------------
\* C3: no fact-check appears twice in the viewer's fact-check list.
C3_NoDuplicate ==
    \A j, k \in 1..Len(ytFactChecks) : j # k => ytFactChecks[j] # ytFactChecks[k]

\* ------------------------------------------------------------------------
IsPrefix(a, b) == Len(a) <= Len(b) /\ \A k \in 1..Len(a) : a[k] = b[k]

VideoChangedHandled ==
    conn = "open" /\ wsChan # <<>> /\ wsChan' = Tail(wsChan)
        /\ Head(wsChan).type = "video_changed"

\* C4: while the viewer's video session stays the same and no video_changed
\* message is handled, both lists only grow at the end: what was displayed
\* stays, unchanged and in place.
C4_AppendOnly ==
    [][(videoSession' = videoSession /\ ~VideoChangedHandled)
          => /\ IsPrefix(ytFactChecks, ytFactChecks')
             /\ IsPrefix(transcriptSegments, transcriptSegments')]_vars


\* The browser runs a timer that is due and dispatches the events it has queued.
FairSpec == Spec /\ WF_vars(Tick) /\ WF_vars(\E t \in timers : TimerFire(t))

\* ------------------------------------------------------------------------
\* The WebSocket reconnect loop
Closed == {i \in 1..Len(socks) : socks[i].state = "CLOSED"}

C1_Matched ==
    mounted => /\ Len(socks) = 1 + Cardinality(Closed) - Cardinality(timers)
               /\ \A i \in 1..Len(socks) : socks[i].url = socks[1].url
               /\ \A t \in timers : t.sock \in Closed /\ t.due <= now + ReconnectDelay

C1_Step ==
    /\ \A i \in 1..Len(socks) :
          (mounted /\ socks[i].state # "CLOSED" /\ socks'[i].state = "CLOSED")
             => /\ timers' = timers \cup {[sock |-> i, due |-> now + ReconnectDelay]}
                /\ [sock |-> i, due |-> now + ReconnectDelay] \notin timers
                /\ Len(socks') = Len(socks)
    /\ Len(socks') # Len(socks)
          => /\ Len(socks') = Len(socks) + 1
             /\ socks'[Len(socks')] = [url |-> socks[1].url, state |-> "CONNECTING"]
             /\ \E t \in timers : t.due = now /\ timers' = timers \ {t}

\* C1: in both views, every close of the component's WebSocket while it is
\* mounted schedules exactly one reconnect, due exactly ReconnectDelay later;
\* a socket is only ever created by such a timer coming due, to the same URL;
\* while the component stays mounted every close is matched by one later
\* connection attempt or one pending timer, for every close (no budget); and
\* the attempt is eventually made unless the component is unmounted first.
C1_Reconnect ==
    /\ []C1_Matched
    /\ [][C1_Step]_vars
    /\ \A i \in 1..MaxSockets :
          [](i <= Len(socks) /\ socks[i].state = "CLOSED" /\ mounted
                => <>(Len(socks) > i \/ ~mounted))

\* The socket has been dropped twice with the component mounted, and both
\* times a new connection was made three seconds later.
C1_Witness ==
    /\ mounted
    /\ Len(socks) = 3
    /\ socks[1].state = "CLOSED" /\ socks[2].state = "CLOSED"
    /\ socks[3].state = "OPEN"
    /\ now >= 2 * ReconnectDelay

\* ------------------------------------------------------------------------
\* A well-formed fact-check result
WellFormed(r) ==
    /\ r.status = 200
    /\ r.verdict \in Verdicts
    /\ r.confidence \in 0..100
    /\ r.explanation \in {"provider", "mock"}
    /\ DOMAIN r.sources = 1..Len(r.sources)

\* C5: the answer to a fact-check request with a non-empty statement is a
\* well-formed result: status 200, the statement, a verdict of the enum, a
\* confidence between 0 and 1, an explanation and a list of sources, whether
\* the provider or the mock table produced it.
C5_WellFormedResult ==
    (lastReq.kind = "fact-check" /\ lastReq.st # "empty")
        => WellFormed(lastResp) /\ lastResp.statement = lastReq.st

\* A statement none of the mock keywords matches, answered from the mock table.
C5_Witness ==
    /\ lastReq.kind = "fact-check" /\ lastReq.st = "misc"
    /\ lastResp.explanation = "mock" /\ lastResp.verdict = "Unverified"

\* ------------------------------------------------------------------------
StatementOf(id) == CHOOSE st \in Statements : st.id = id

\* C6: a fact-check request for which the provider failed, or was not called
\* for lack of a key, is answered with status 200 and the entry of the mock
\* table for its statement.
C6_MockFallback ==
    (lastReq.kind = "fact-check" /\ lastReq.provider \in {"failed", "not-called"})
        => lastResp = Result(StatementOf(lastReq.st),
                             MockLookup(StatementOf(lastReq.st)).verdict,
                             MockLookup(StatementOf(lastReq.st)).confidence, "mock")

\* A key is configured and the provider call failed.
C6_Witness ==
    /\ perplexityKey
    /\ lastReq.kind = "fact-check" /\ lastReq.provider = "failed"
    /\ lastResp.status = 200 /\ lastResp.verdict = "False"

\* ------------------------------------------------------------------------
C7_State ==
    (lastReq.kind = "fact-checks" /\ dbFacts[lastReq.key] = <<>>)
        => lastResp.status = 200 /\ lastResp.fact_checks = <<>>

C7_Step ==
    (reqSeq' # reqSeq /\ lastReq'.kind = "fact-checks") => dbFacts' = dbFacts

\* C7: retrieving the fact-checks of an id without stored records answers
\* 200 with an empty fact_checks list, and no retrieval changes the store.
C7_UnknownIdEmpty == []C7_State /\ [][C7_Step]_vars

\* Records are stored under another id and an unknown id is retrieved.
C7_Witness ==
    /\ lastReq.kind = "fact-checks" /\ lastReq.key = "unknown"
    /\ dbFacts["s1"] # <<>>
    /\ lastResp.fact_checks = <<>>

C9_Transcription ==
    lastReq.kind = "transcription" =>
        /\ ~lastReq.is_final =>
              lastResp.processing = "received" /\ fcRuns = 0 /\ lastResp.verdict = ""
        /\ (lastReq.is_final /\ StatementOf(lastReq.st).len > 10) =>
              /\ lastResp.processing = "processed"
              /\ fcRuns = 1
              /\ WellFormed(lastResp) /\ lastResp.statement = lastReq.st

\* An interim text of more than 10 characters has been received.
C9_Witness ==
    /\ lastReq.kind = "transcription" /\ ~lastReq.is_final
    /\ StatementOf(lastReq.st).len > 10
    /\ lastResp.processing = "received"
    /\ dbFacts["s1"] # <<>>

\* ------------------------------------------------------------------------
\* "The script will: 1. Build the frontend ... 5. Provide you with the URLs"
DocumentedOrder ==
    <<"build_frontend", "build_and_push_image", "deploy_infrastructure", "upload_frontend",
      "show_outputs">>

Documented == {DocumentedOrder[k] : k \in 1..Len(DocumentedOrder)}

CommandsOf(fn) == {Script[fn][k].name : k \in 1..Len(Script[fn])}

\* C10: the functions run in main's order, in which the five documented
\* steps come in the documented order after check_prerequisites and
\* get_api_keys; a function has started only if every function before it
\* has returned with none of its commands failed; a run that ends well has
\* run all five.
C10_StepOrder ==
    /\ SelectSeq(dStarted, LAMBDA f : f \in Documented)
          = SubSeq(DocumentedOrder, 1, Len(SelectSeq(dStarted, LAMBDA f : f \in Documented)))
    /\ \A k \in 1..Len(dStarted) :
          dStarted[k] \in Documented
             => \E i, j \in 1..(k - 1) : /\ dStarted[i] = "check_prerequisites"
                                         /\ dStarted[j] = "get_api_keys"
    /\ \A k \in 2..Len(dStarted) :
          \A j \in 1..(k - 1) :
             /\ \E i \in 1..Len(dReturned) : dReturned[i] = dStarted[j]
             /\ CommandsOf(dStarted[j]) \cap dFailed = {}
    /\ dStatus = "done" => Documented \subseteq {dStarted[k] : k \in 1..Len(dStarted)}

\* The whole deployment has run and the URLs have been printed.
C10_Witness ==
    /\ dStatus = "done"
    /\ "echo URLs" \in dLog
    /\ Len(dStarted) = Len(Main)

\* ------------------------------------------------------------------------
\* The functions of main that build, push, deploy or upload
Builders == {"build_frontend", "build_and_push_image", "deploy_infrastructure", "upload_frontend"}

HasStarted(fn) == \E k \in 1..Len(dStarted) : dStarted[k] = fn

\* C11: nothing is built, pushed, deployed or uploaded unless both API keys
\* are non-empty; and a run that has ended with a key still empty after
\* get_api_keys prompted for it has logged 'Both API keys are required' and
\* exited with status 1.
C11_KeysRequired ==
    /\ (\E fn \in Builders : HasStarted(fn)) => keyP /\ keyO
    /\ (dStatus # "running" /\ HasStarted("get_api_keys") /\ ~(keyP /\ keyO))
          => "Both API keys are required" \in dLog /\ dExit = 1

\* ------------------------------------------------------------------------
SetVideoSettles(q) == q \in adminReqs /\ q.kind = "set-video" /\ q \notin adminReqs'

\* C12: when the response to a set-video request is handled, a response
\* that is OK with success true replaces the current session by the video it
\* returns, clears the URL field and shows the success message; any other
\* outcome (a non-OK response, success false, a body that does not parse, a
\* rejected fetch) shows an error message and leaves the current session
\* and the URL field as they were.
C12_SetVideoFailure ==
    [][\A q \in adminReqs :
          SetVideoSettles(q) =>
             /\ adminLast'.id = q.id
             /\ IF Succeeded(adminLast'.resp)
                  THEN /\ currentSession' = adminLast'.resp.video
                       /\ videoUrl' = ""
                       /\ message' = "Video set successfully"
                  ELSE /\ currentSession' = currentSession
                       /\ videoUrl' = videoUrl
                       /\ message' \in {"Error: set video", "Network error"}]_vars

\* With video A current and urlB entered, the request for urlB was answered
\* OK with success false: the error shows, A and urlB are still there.
C12_Witness ==
    /\ adminLast.kind = "set-video"
    /\ adminLast.resp = Response("json", TRUE, FALSE, "B")
    /\ currentSession = "A" /\ videoUrl = "urlB"
    /\ message = "Error: set video"
    /\ ~isLoading

\* ------------------------------------------------------------------------
\* C13: when the admin follows the documented workflow (set a video, start
\* processing, stop, each click after the response to the one before), then
\* at the moment a video has been set successfully isProcessing is false, so
\* that Start Processing is enabled for it.
C13_StartEnabled ==
    [][(workflow = "set" /\ workflow' = "start") => ~adminIsProcessing']_vars

\* ------------------------------------------------------------------------
\* Submissions of TruthSeeker: the k-th accepted final result is the one
\* whose debounce timer has id k.
Debouncing == {t \in spTimers : t.kind = "debounce"}

Sent(id) == \E k \in 1..Len(outbox) : outbox[k].id = id

\* What is pending or sent is a trimmed final text of more than MinLength characters.
C14_OnlyLong ==
    /\ \A t \in Debouncing : t.sentence.pad = 0 /\ t.sentence.len > MinLength
    /\ \A k \in 1..Len(outbox) : outbox[k].sentence.pad = 0 /\ outbox[k].sentence.len > MinLength

\* A pending submission stays pending until it is sent.
C14_Kept ==
    \A t \in Debouncing :
       t \in spTimers' \/ \E k \in 1..Len(outbox') : outbox'[k].id = t.id

\* A pending submission stays pending until it is sent, or until a later
\* final result is accepted before its timer has run.
C14_KeptOrSuperseded ==
    \A t \in Debouncing :
       \/ t \in spTimers'
       \/ \E k \in 1..Len(outbox') : outbox'[k].id = t.id
       \/ /\ timerSeq' = timerSeq + 1
          /\ clock <= t.due
          /\ \E n \in spTimers' : n.kind = "debounce" /\ n.id = timerSeq + 1
                                     /\ n.due = clock + DebounceDelay

\* C14 as stated: every accepted final result (trimmed text longer than
\* MinLength) is eventually submitted, its pending submission never being
\* dropped; nothing shorter, and no interim result, is ever pending or sent.
C14_EverySubmitted ==
    /\ []C14_OnlyLong
    /\ [][C14_Kept]_vars
    /\ \A id \in 1..MaxResults : []((\E t \in Debouncing : t.id = id) => <>Sent(id))

\* C14, amended: every accepted final result is eventually submitted unless
\* a later one is accepted before its debounce timer has run, which replaces
\* it; nothing shorter than MinLength + 1 trimmed characters, and no interim
\* result, is ever pending or sent.
C14_SubmittedUnlessSuperseded ==
    /\ []C14_OnlyLong
    /\ [][C14_KeptOrSuperseded]_vars
    /\ \A id \in 1..MaxResults :
          []((\E t \in Debouncing : t.id = id) => <>(Sent(id) \/ timerSeq > id))

\* Two final results were accepted; the second replaced the first and was sent.
C14_Witness ==
    /\ timerSeq = 2
    /\ Len(outbox) = 1 /\ outbox[1].id = 2
    /\ spTimers = {}

\* ------------------------------------------------------------------------
C15_OnePending ==
    /\ Cardinality(Debouncing) <= 1
    /\ \A t \in Debouncing : t.id = processTimeoutRef /\ t.id = timerSeq
    /\ \A j, k \in 1..Len(outbox) : j < k => outbox[j].id < outbox[k].id

C15_Step ==
    /\ timerSeq' # timerSeq
          => /\ Debouncing' = {t \in spTimers' : t.id = timerSeq + 1}
             /\ Cardinality(Debouncing') = 1
             /\ outbox' = outbox
    /\ \A id \in 1..timerSeq :
          (~Sent(id) /\ \A t \in Debouncing : t.id # id)
             => \A k \in 1..Len(outbox') : outbox'[k].id # id
    /\ outbox' # outbox
          => \E t \in Debouncing : /\ t.due = clock
                                   /\ spTimers' = spTimers \ {t}
                                   /\ Len(outbox') = Len(outbox) + 1
                                   /\ SubSeq(outbox', 1, Len(outbox)) = outbox
                                   /\ outbox'[Len(outbox')].id = t.id
                                   /\ outbox'[Len(outbox')].sentence = t.sentence

\* C15: at most one submission timer is pending at any time, the one held
\* in processTimeoutRef; accepting a final result cancels the pending
\* submission and arms one for the new sentence, DebounceDelay later; a
\* cancelled sentence is never sent; a sentence is sent only by its timer
\* coming due, once.
C15_Debounced == []C15_OnePending /\ [][C15_Step]_vars

\* The second sentence came while the first was pending, half a second
\* after it: the first was cancelled, the second is pending alone.
C15_Witness ==
    /\ timerSeq = 2 /\ outbox = <<>>
    /\ \E t \in Debouncing : t.id = 2 /\ t.due = clock + DebounceDelay /\ clock = 5
    /\ processTimeoutRef = 2
    /\ isProcessing

\* ------------------------------------------------------------------------
SocketOpen == wsRef # 0 /\ socks[wsRef].state = "OPEN"

\* C16: when a debounce timer runs, exactly one submission is made, of its
\* sentence: on the WebSocket if the socket in wsRef is open at that moment,
\* and no POST is made; otherwise by a POST carrying the component's session
\* id, and nothing is sent on the WebSocket.
C16_OneChannel ==
    [][\A t \in Debouncing :
          (t.due = clock /\ t \notin spTimers' /\ timerSeq' = timerSeq)
             => /\ Len(outbox') = Len(outbox) + 1
                /\ outbox'[Len(outbox')].sentence = t.sentence
                /\ IF SocketOpen
                     THEN /\ outbox'[Len(outbox')].channel = "ws"
                          /\ httpPending' = httpPending
                     ELSE /\ outbox'[Len(outbox')].channel = "http"
                          /\ outbox'[Len(outbox')].session = sessionId
                          /\ httpPending' = httpPending \cup {Len(outbox')}
                          /\ Len(outbox') \notin httpPending]_vars

\* One sentence went out by HTTP with the socket not open, the next on the
\* WebSocket after it had opened.
C16_Witness ==
    /\ Len(outbox) = 2
    /\ outbox[1].channel = "http" /\ outbox[1].session = sessionId
    /\ outbox[2].channel = "ws"
    /\ SocketOpen

\* ------------------------------------------------------------------------
\* The viewer's onmessage handles the oldest message in flight, of this type.
Handles(type) ==
    /\ conn = "open" /\ conn' = "open"
    /\ wsChan # <<>> /\ wsChan' = Tail(wsChan)
    /\ Head(wsChan).type = type

\* C17: handling video_changed sets the video session to the announced one
\* and empties the fact-check list and the transcript list; handling
\* current_session with data sets all three from the snapshot and loading to
\* false; handling current_session without data sets loading to false and
\* changes nothing else.  Nothing else of the viewer's state changes.
C17_MessageEffect ==
    [][/\ Handles("video_changed")
            => /\ videoSession' = Head(wsChan).session
               /\ ytFactChecks' = <<>> /\ transcriptSegments' = <<>>
               /\ UNCHANGED <<loading, ytError>>
       /\ (Handles("current_session") /\ Head(wsChan).session # "none")
            => /\ videoSession' = Head(wsChan).session
               /\ ytFactChecks' = Head(wsChan).facts
               /\ transcriptSegments' = Head(wsChan).segs
               /\ loading' = FALSE
               /\ UNCHANGED ytError
       /\ (Handles("current_session") /\ Head(wsChan).session = "none")
            => /\ loading' = FALSE
               /\ UNCHANGED <<videoSession, ytFactChecks, transcriptSegments, ytError>>]_vars

\* Video A had a fact-check when the admin set video B; the viewer, on its
\* first connection, has handled video_changed for B: B with two empty lists.
C17_Witness ==
    /\ videoSession = "B" /\ ytFactChecks = <<>> /\ transcriptSegments = <<>>
    /\ wsGen = 2 /\ shownGen = 2
    /\ srvFacts["A"] # <<>>
    /\ conn = "open" /\ connects = 1 /\ wsChan = <<>> /\ httpState = "done"

\* ------------------------------------------------------------------------
\* C18: once a handled video_changed or current_session message has
\* announced a video session, the viewer never shows an earlier one, nor a
\* fact-check or transcript segment of an earlier one.
C18_NeverEarlier ==
    /\ shownGen >= wsGen
    /\ \A k \in 1..Len(ytFactChecks) : ytFactChecks[k].gen >= wsGen
    /\ \A k \in 1..Len(transcriptSegments) : transcriptSegments[k].gen >= wsGen

\* ------------------------------------------------------------------------
\* C19: once the component is unmounted, solo view or YouTube viewer, it
\* creates no WebSocket any more (no reconnect timer of it runs).
C19_NoReconnectAfterUnmount ==
    [][~mounted => Len(socks') = Len(socks)]_vars

\* ------------------------------------------------------------------------
\* The sockets that are connecting or open
Live == {i \in 1..Len(socks) : socks[i].state \in {"CONNECTING", "OPEN"}}

C20_AtMostOne ==
    mounted => /\ Cardinality(Live) <= 1
               /\ Cardinality(timers) <= 1
               /\ timers # {} => Live = {}

C20_Created ==
    (mounted /\ Len(socks') # Len(socks))
       => /\ Len(socks') = Len(socks) + 1
          /\ Live = {}
          /\ timers = {[sock |-> Len(socks), due |-> now]}
          /\ timers' = {}

\* C20: while the component is mounted at most one of its WebSockets is
\* connecting or open; a socket is created (after the one of the mount) only
\* by the one reconnect timer that the close of the socket before it armed,
\* when no socket is connecting or open and no other timer is pending.
C20_OneConnection == []C20_AtMostOne /\ [][C20_Created]_vars

\* The solo view's first socket has closed and its reconnect timer has just
\* made the second, the only one connecting or open.
C20_Witness ==
    /\ mounted /\ view = "solo"
    /\ Len(socks) = 2 /\ socks[1].state = "CLOSED" /\ socks[2].state = "CONNECTING"
    /\ timers = {} /\ now = ReconnectDelay /\ wsRef = 2

\* ------------------------------------------------------------------------
\* C21: whenever isListening is true, the recognizer held in recognitionRef
\* has been started and has not ended, or a restart of it is pending.
C21_ListeningActive ==
    isListening =>
        /\ recognitionRef # 0
        /\ \/ Started(recognitionRef)
           \/ \E t \in spTimers : t.kind = "restart" /\ t.rec = recognitionRef

\* ------------------------------------------------------------------------
\* C22: the solo view's fact-check list is ordered newest first.  A result
\* received in a fact_check_result message or in an OK response to the HTTP
\* fallback goes to the front and the entries already there keep their
\* order; a message of another type and a response that is not OK leave the
\* list as it is; nothing else changes the list except clearing it.
InsertedAtFront(result) == factChecks' = <<result>> \o factChecks

MessageHandled == wsReceived' = wsReceived + 1

ResponseHandled == httpPending' # httpPending /\ httpPending' \subseteq httpPending

C22_Step ==
    /\ MessageHandled =>
          /\ received'.via = "ws"
          /\ IF received'.kind = "fact_check_result"
               THEN InsertedAtFront(received'.data)
               ELSE factChecks' = factChecks
    /\ ResponseHandled =>
          /\ received'.via = "http"
          /\ \E n \in httpPending \ httpPending' : received'.data = outbox[n].sentence.id
          /\ IF received'.kind = "ok"
               THEN InsertedAtFront(received'.data)
               ELSE factChecks' = factChecks
    /\ ~MessageHandled /\ ~ResponseHandled => factChecks' \in {factChecks, <<>>}

C22_NewestFirst == [][C22_Step]_vars

\* Three results are listed, the last of them received in a fact_check_result
\* message and put in front of a different one; a response was handled before.
C22_Witness ==
    /\ Len(factChecks) = 3
    /\ received = [via |-> "ws", kind |-> "fact_check_result", data |-> factChecks[1]]
    /\ factChecks[1] # factChecks[2]
    /\ \E n \in 1..Len(outbox) : outbox[n].channel = "http" /\ n \notin httpPending

\* ------------------------------------------------------------------------
\* C23: one solo-view instance uses a single session id.  The id never
\* changes after mount, and every WebSocket the instance has created, the
\* reconnects included, and every fact-check it has submitted, over the
\* socket or by the HTTP fallback, carries it.
C23_Carried ==
    /\ \A i \in 1..Len(socks) : socks[i].url = <<"ws", sessionId>>
    /\ \A n \in 1..Len(outbox) : outbox[n].session = sessionId

C23_SingleSession == [](C23_Carried) /\ [][sessionId' = sessionId]_vars

\* The instance has reconnected and has submitted by the HTTP fallback.
C23_Witness ==
    /\ sessionId = "session_b"
    /\ Len(socks) >= 2
    /\ \E n \in 1..Len(outbox) : outbox[n].channel = "http"
====
